---- MODULE Spec2Model ----
(***************************************************************************)
(* Demo-Stitcher: the audio mixing engine (services/audioService,          *)
(* createDemoMix) as a state machine.                                       *)
(*                                                                          *)
(* Units.  Times are integers counted in half milliseconds (Sec, Ms); all  *)
(* inputs are whole milliseconds, so totalOutputDuration / 2 is exact.     *)
(* Samples are integers counted in hundredths of full scale.  A loudness   *)
(* or a gain g is a non-negative real that the code obtains through        *)
(* Math.sqrt; it is carried here by its square, as a fraction <<n, d>>     *)
(* with d > 0, which is exact (x |-> x^2 is a strictly increasing          *)
(* bijection of the non-negative reals, so comparisons, min, max and       *)
(* equality of gains are those of their squares).  The rounding of IEEE    *)
(* doubles is not modelled: arithmetic is exact.                            *)
(*                                                                          *)
(* An optional value (null in the code) is a sequence of length 0 or 1.    *)
(***************************************************************************)
EXTENDS Integers, Sequences, FiniteSets, TLC

\* the state of one createDemoMix invocation
VARIABLES pc, tracks, opts, progress, tempContext, decodeLog, decodedBuffers,
          tagBuffer, warnings, gainAdjustments, trackDurations,
          totalOutputDuration, offlineCtx, cursor, trackEvents, tagCursor,
          tagEvents, renderedBuffer, result, error

vars == <<pc, tracks, opts, progress, tempContext, decodeLog, decodedBuffers,
          tagBuffer, warnings, gainAdjustments, trackDurations,
          totalOutputDuration, offlineCtx, cursor, trackEvents, tagCursor,
          tagEvents, renderedBuffer, result, error>>

\* bufferToWav, its sample conversion and calculateRMS applied to a buffer on
\* their own: the function applied last, its argument and its value
VARIABLES fnApplied, testBuffer, wavFile, rmsValue, quantIn, quantOut

fnVars == <<fnApplied, testBuffer, wavFile, rmsValue, quantIn, quantOut>>

\* the state of the App component (App.tsx) and its pending render timer
VARIABLES appTracks, appSettings, isProcessing, demoWav, demoMp3, blobs, renderTimer, alerts

\* history: the track list the result at hand was rendered from, and the last
\* handler that touched the track list with whether a result was at hand then
VARIABLES renderedFrom, lastOp

appVars ==
  <<appTracks, appSettings, isProcessing, demoWav, demoMp3, blobs, renderTimer, alerts,
    renderedFrom, lastOp>>

\* the locals of createDemoMix invocations that run side by side, one record each
VARIABLES calls

callVars == <<calls>>

allVars == <<vars, fnVars, appVars, callVars>>

----------------------------------------------------------------------------
(* Units and fractions *)

Sec(s) == s * 2000

Ms(m) == m * 2

Min(a, b) == IF a < b THEN a ELSE b

Max(a, b) == IF a > b THEN a ELSE b

FLess(a, b) == a[1] * b[2] < b[1] * a[2]

FEq(a, b) == a[1] * b[2] = b[1] * a[2]

FMin(a, b) == IF FLess(a, b) THEN a ELSE b

FMax(a, b) == IF FLess(b, a) THEN a ELSE b

\* ceil(n / d) for n >= 0, d > 0
CeilDiv(n, d) == (n + d - 1) \div d

RECURSIVE SumSeq(_)
SumSeq(s) == IF s = <<>> THEN 0 ELSE Head(s) + SumSeq(Tail(s))

----------------------------------------------------------------------------
(* Bounds and inputs *)

MaxTracks == 3

NoFile == "none"

\* What decodeAudioData makes of each file: a failure, or an AudioBuffer of
\* which the code reads duration and getChannelData(0).
FileLib ==
  [ f \in {"intro.wav", "verse.mp3", "loud.mp3", "silence.wav", "corrupt.mp3", "tag.wav"} |->
      CASE f = "intro.wav"   -> [decodes |-> TRUE,  duration |-> Ms(300),  data |-> <<2, 2, 2, 2>>]
        [] f = "verse.mp3"   -> [decodes |-> TRUE,  duration |-> Sec(10),  data |-> <<10, 0, 0, 0, 10>>]
        [] f = "loud.mp3"    -> [decodes |-> TRUE,  duration |-> Sec(30),  data |-> <<60, -60, 60, -60, -60, 60, 60, 60>>]
        [] f = "silence.wav" -> [decodes |-> TRUE,  duration |-> Ms(14100), data |-> <<0, 0, 0, 0, 0, 0>>]
        [] f = "corrupt.mp3" -> [decodes |-> FALSE, duration |-> 0,        data |-> <<>>]
        [] f = "tag.wav"     -> [decodes |-> TRUE,  duration |-> Sec(1),   data |-> <<30, 30>>] ]

TrackFiles == {"intro.wav", "verse.mp3", "loud.mp3", "silence.wav", "corrupt.mp3"}

TagFiles == {NoFile, "tag.wav", "corrupt.mp3"}

\* App.handleFilesAdded: name is file.name
AudioTrack(f) == [name |-> f, file |-> f]

TrackLists ==
  UNION { { [k \in 1..n |-> AudioTrack(fs[k])] : fs \in [1..n -> TrackFiles] } : n \in 0..MaxTracks }

SegmentChoices == {Sec(25), Sec(30), Ms(7)}

FadeChoices == {0, Ms(500)}

GapChoices == {0, Ms(300)}

IntervalChoices == {0, Sec(10), Sec(30)}

\* The options of a call.  tagInterval is varied with a decodable tag file, the
\* only case in which the code reads it, and left at its default otherwise.
CreateDemoOptions ==
  { o \in [normalize : BOOLEAN, segmentDuration : SegmentChoices, fadeDuration : FadeChoices,
           silenceGap : GapChoices, tagFile : TagFiles, tagInterval : IntervalChoices] :
      o.tagFile = "tag.wav" \/ o.tagInterval = Sec(30) }

DefaultOptions ==
  [normalize |-> FALSE, segmentDuration |-> Sec(25), fadeDuration |-> Ms(500),
   silenceGap |-> Ms(300), tagFile |-> NoFile, tagInterval |-> Sec(30)]

----------------------------------------------------------------------------
(* Pure functions of the engine *)

sampleRate == 44100

TARGET_RMS == 15

AudioBufferOf(f) == [duration |-> FileLib[f].duration, data |-> FileLib[f].data]

\* decodeAudio: <<>> when decodeAudioData rejects, else <<buffer>>
decodeAudio(file) == IF FileLib[file].decodes THEN <<AudioBufferOf(file)>> ELSE <<>>

RECURSIVE SumSquaresFrom(_, _, _)
SumSquaresFrom(data, i, step) ==
  IF i < Len(data)
    THEN data[i + 1] * data[i + 1] + SumSquaresFrom(data, i + step, step)
    ELSE 0

\* The square of the value calculateRMS returns, sum / (data.length / step),
\* as the fraction <<sum * step, data.length>> (in 1e-4 of full scale squared).
calculateRMS(buffer) ==
  LET step == 4
      sum  == SumSquaresFrom(buffer.data, 0, step)
  IN  <<sum * step, Len(buffer.data)>>

\* (variant: the upper limit 4.0 instead of 3.0)
clampRatioLoose(ratio) == FMin(FMax(ratio, <<1, 4>>), <<16, 1>>)

\* Math.min(Math.max(ratio, 0.5), 3.0), on squares: 0.25 and 9
clampRatio(ratio) == FMin(FMax(ratio, <<1, 4>>), <<9, 1>>)

\* (variant: no rms > 0 test, a silent buffer takes the largest gain)
gainAdjustmentNoZeroTest(buffer) ==
  LET rms == calculateRMS(buffer)
  IN  IF rms[1] > 0
        THEN clampRatio(<<TARGET_RMS * TARGET_RMS * rms[2], rms[1]>>)
        ELSE <<9, 1>>

\* the gain of one buffer under normalization (squared)
gainAdjustment(buffer) ==
  LET rms == calculateRMS(buffer)
  IN  IF rms[1] > 0
        THEN clampRatio(<<TARGET_RMS * TARGET_RMS * rms[2], rms[1]>>)
        ELSE <<1, 1>>

playDurationOf(buffer, segmentDuration) == Min(buffer.duration, segmentDuration)

\* (variant: the gap is added after the last track too)
gapAfterEveryTrack(index, n, silenceGap) == silenceGap

\* the silence added to the total after track number index (0-based) of n
gapAfter(index, n, silenceGap) == IF index < n - 1 THEN silenceGap ELSE 0

\* (variant: the total counts every track at its full length)
RECURSIVE timelineTotalUnclamped(_, _, _, _)
timelineTotalUnclamped(buffers, index, segmentDuration, silenceGap) ==
  IF index >= Len(buffers) THEN 0
  ELSE buffers[index + 1].duration
         + gapAfter(index, Len(buffers), silenceGap)
         + timelineTotalUnclamped(buffers, index + 1, segmentDuration, silenceGap)

RECURSIVE timelineTotal(_, _, _, _)
timelineTotal(buffers, index, segmentDuration, silenceGap) ==
  IF index >= Len(buffers) THEN 0
  ELSE playDurationOf(buffers[index + 1], segmentDuration)
         + gapAfter(index, Len(buffers), silenceGap)
         + timelineTotal(buffers, index + 1, segmentDuration, silenceGap)

\* Math.ceil(sampleRate * totalOutputDuration), the duration in half milliseconds
\* (sampleRate / Sec(1) is reduced by 100 to keep the product within 32 bits)
frameCount(duration) == CeilDiv((sampleRate \div 100) * duration, Sec(1) \div 100)

\* (variant: the index is not divided by the track count)
decodeProgressUnscaled(i, totalTracks) == 10 + (i * 30)

\* 10 + Math.floor((i / totalTracks) * 30)
decodeProgress(i, totalTracks) == 10 + ((i * 30) \div totalTracks)

\* (variant: the first tag at 5 s whatever the total)
firstTagTimeFixed(total) == Sec(5)

\* Math.min(5, totalOutputDuration / 2)
firstTagTime(total) == Min(Sec(5), total \div 2)

\* (variant: <= instead of <)
tagLoopInclusive(tc, total) == tc <= total

\* line 251: tagCursor < totalOutputDuration
tagLoopCondition(tc, total) == tc < total

----------------------------------------------------------------------------
(* createDemoMix, one action per step between its statements *)

\* no invocation is running
EngineInit ==
  /\ pc = "idle"
  /\ tracks = <<>>
  /\ opts = DefaultOptions
  /\ progress = <<>>
  /\ tempContext = "none"
  /\ decodeLog = <<>>
  /\ decodedBuffers = <<>>
  /\ tagBuffer = <<>>
  /\ warnings = 0
  /\ gainAdjustments = <<>>
  /\ trackDurations = <<>>
  /\ totalOutputDuration = 0
  /\ offlineCtx = <<>>
  /\ cursor = 0
  /\ trackEvents = <<>>
  /\ tagCursor = 0
  /\ tagEvents = <<>>
  /\ renderedBuffer = <<>>
  /\ result = <<>>
  /\ error = <<>>

\* no function has been applied on its own
FnInit ==
  /\ fnApplied = "none"
  /\ testBuffer = <<>>
  /\ wavFile = <<>>
  /\ rmsValue = <<>>
  /\ quantIn = 0
  /\ quantOut = 0

\* App.tsx lines 11-23: the initial state of the component; no render timer
AppInit ==
  /\ appTracks = <<>>
  /\ appSettings = [normalize |-> TRUE, tagFile |-> NoFile, tagInterval |-> Sec(30)]
  /\ isProcessing = FALSE
  /\ demoWav = <<>>
  /\ demoMp3 = <<>>
  /\ blobs = <<>>
  /\ renderTimer = <<>>
  /\ alerts = 0
  /\ renderedFrom = <<>>
  /\ lastOp = [op |-> "none", hadResult |-> FALSE]

\* the invocations that can be open at once
CallIds == {1, 2}

\* the locals of an invocation that is not running
IdleCall ==
  [pc |-> "idle", decodedBuffers |-> <<>>, tagBuffer |-> <<>>, opts |-> DefaultOptions,
   gainAdjustments |-> <<>>, trackDurations |-> <<>>, totalOutputDuration |-> 0,
   cursor |-> 0, trackEvents |-> <<>>, tagCursor |-> 0, tagEvents |-> <<>>]

CallInit == calls = [id \in CallIds |-> IdleCall]

Init == EngineInit /\ FnInit /\ AppInit /\ CallInit

\* (variant: the emptiness test placed after the first report and the context)
InvokeEmptyLate ==
  /\ pc = "idle"
  /\ tracks' = <<>>
  /\ opts' \in CreateDemoOptions
  /\ progress' = Append(progress, 5)
  /\ tempContext' = "open"
  /\ error' = <<[message |-> "No tracks provided", name |-> ""]>>
  /\ pc' = "failed"
  /\ UNCHANGED <<decodeLog, decodedBuffers, tagBuffer, warnings,
                 gainAdjustments, trackDurations, totalOutputDuration, offlineCtx, cursor,
                 trackEvents, tagCursor, tagEvents, renderedBuffer, result>>
  /\ UNCHANGED <<fnVars, appVars, callVars>>

\* lines 100-112: the call with an empty track list throws at once
InvokeEmpty ==
  /\ pc = "idle"
  /\ tracks' = <<>>
  /\ opts' \in CreateDemoOptions
  /\ error' = <<[message |-> "No tracks provided", name |-> ""]>>
  /\ pc' = "failed"
  /\ UNCHANGED <<progress, tempContext, decodeLog, decodedBuffers, tagBuffer, warnings,
                 gainAdjustments, trackDurations, totalOutputDuration, offlineCtx, cursor,
                 trackEvents, tagCursor, tagEvents, renderedBuffer, result>>
  /\ UNCHANGED <<fnVars, appVars, callVars>>

\* lines 100-122: the call with tracks reports 5 and opens the decode context
InvokeStart ==
  /\ pc = "idle"
  /\ tracks' \in TrackLists
  /\ Len(tracks') > 0
  /\ opts' \in CreateDemoOptions
  /\ progress' = Append(progress, 5)
  /\ tempContext' = "open"
  /\ pc' = "decode"
  /\ UNCHANGED <<decodeLog, decodedBuffers, tagBuffer, warnings, gainAdjustments,
                 trackDurations, totalOutputDuration, offlineCtx, cursor, trackEvents,
                 tagCursor, tagEvents, renderedBuffer, result, error>>
  /\ UNCHANGED <<fnVars, appVars, callVars>>

\* (variant: the decoded buffer is put in front of the list instead of at its end)
DecodeTrackOkUnshift ==
  /\ pc = "decode"
  /\ Len(decodedBuffers) < Len(tracks)
  /\ LET i     == Len(decodedBuffers)
         track == tracks[i + 1]
     IN  /\ decodeAudio(track.file) # <<>>
         /\ progress' = Append(progress, decodeProgress(i, Len(tracks)))
         /\ decodeLog' = Append(decodeLog, track.name)
         /\ decodedBuffers' = <<decodeAudio(track.file)[1]>> \o decodedBuffers
  /\ UNCHANGED <<pc, tracks, opts, tempContext, tagBuffer, warnings, gainAdjustments,
                 trackDurations, totalOutputDuration, offlineCtx, cursor, trackEvents,
                 tagCursor, tagEvents, renderedBuffer, result, error>>
  /\ UNCHANGED <<fnVars, appVars, callVars>>

\* lines 124-129: one iteration of the decode loop that succeeds; i is Len(decodedBuffers)
DecodeTrackOk ==
  /\ pc = "decode"
  /\ Len(decodedBuffers) < Len(tracks)
  /\ LET i     == Len(decodedBuffers)
         track == tracks[i + 1]
     IN  /\ decodeAudio(track.file) # <<>>
         /\ progress' = Append(progress, decodeProgress(i, Len(tracks)))
         /\ decodeLog' = Append(decodeLog, track.name)
         /\ decodedBuffers' = Append(decodedBuffers, decodeAudio(track.file)[1])
  /\ UNCHANGED <<pc, tracks, opts, tempContext, tagBuffer, warnings, gainAdjustments,
                 trackDurations, totalOutputDuration, offlineCtx, cursor, trackEvents,
                 tagCursor, tagEvents, renderedBuffer, result, error>>
  /\ UNCHANGED <<fnVars, appVars, callVars>>

\* (variant: the message without the track's name)
decodeErrorNoName(track) == [message |-> "Could not decode audio file: ", name |-> ""]

\* the error thrown at line 132
decodeError(track) == [message |-> "Could not decode audio file: ", name |-> track.name]

\* (variant: the error is swallowed and the same track is decoded again)
DecodeTrackFailRetries ==
  /\ pc = "decode"
  /\ Len(decodedBuffers) < Len(tracks)
  /\ Len(decodeLog) < 2 * Len(tracks)
  /\ LET i     == Len(decodedBuffers)
         track == tracks[i + 1]
     IN  /\ decodeAudio(track.file) = <<>>
         /\ progress' = Append(progress, decodeProgress(i, Len(tracks)))
         /\ decodeLog' = Append(decodeLog, track.name)
  /\ UNCHANGED <<pc, tracks, opts, tempContext, decodedBuffers, tagBuffer, warnings,
                 gainAdjustments, trackDurations, totalOutputDuration, offlineCtx, cursor,
                 trackEvents, tagCursor, tagEvents, renderedBuffer, result, error>>
  /\ UNCHANGED <<fnVars, appVars, callVars>>

\* lines 124-133: one iteration of the decode loop that fails; the error is rethrown
DecodeTrackFail ==
  /\ pc = "decode"
  /\ Len(decodedBuffers) < Len(tracks)
  /\ LET i     == Len(decodedBuffers)
         track == tracks[i + 1]
     IN  /\ decodeAudio(track.file) = <<>>
         /\ progress' = Append(progress, decodeProgress(i, Len(tracks)))
         /\ decodeLog' = Append(decodeLog, track.name)
         /\ error' = <<decodeError(track)>>
  /\ pc' = "failed"
  /\ UNCHANGED <<tracks, opts, tempContext, decodedBuffers, tagBuffer, warnings,
                 gainAdjustments, trackDurations, totalOutputDuration, offlineCtx, cursor,
                 trackEvents, tagCursor, tagEvents, renderedBuffer, result>>
  /\ UNCHANGED <<fnVars, appVars, callVars>>

\* line 134: the loop ends
DecodeDone ==
  /\ pc = "decode"
  /\ Len(decodedBuffers) = Len(tracks)
  /\ pc' = "tag"
  /\ UNCHANGED <<tracks, opts, progress, tempContext, decodeLog, decodedBuffers, tagBuffer,
                 warnings, gainAdjustments, trackDurations, totalOutputDuration, offlineCtx,
                 cursor, trackEvents, tagCursor, tagEvents, renderedBuffer, result, error>>
  /\ UNCHANGED <<fnVars, appVars, callVars>>

\* lines 146-148, after the tag step: close the context, report 45
afterTagDecode ==
  /\ tempContext' = "closed"
  /\ progress' = Append(progress, 45)
  /\ pc' = "normalize"

\* lines 137-138: no tag file
DecodeTagNone ==
  /\ pc = "tag"
  /\ opts.tagFile = NoFile
  /\ afterTagDecode
  /\ UNCHANGED <<tracks, opts, decodeLog, decodedBuffers, tagBuffer, warnings,
                 gainAdjustments, trackDurations, totalOutputDuration, offlineCtx, cursor,
                 trackEvents, tagCursor, tagEvents, renderedBuffer, result, error>>
  /\ UNCHANGED <<fnVars, appVars, callVars>>

\* lines 138-140: the tag file decodes
DecodeTagOk ==
  /\ pc = "tag"
  /\ opts.tagFile # NoFile
  /\ decodeAudio(opts.tagFile) # <<>>
  /\ tagBuffer' = decodeAudio(opts.tagFile)
  /\ decodeLog' = Append(decodeLog, opts.tagFile)
  /\ afterTagDecode
  /\ UNCHANGED <<tracks, opts, decodedBuffers, warnings, gainAdjustments, trackDurations,
                 totalOutputDuration, offlineCtx, cursor, trackEvents, tagCursor, tagEvents,
                 renderedBuffer, result, error>>
  /\ UNCHANGED <<fnVars, appVars, callVars>>

\* (variant: the tag's decode error is rethrown like a track's)
DecodeTagFailThrows ==
  /\ pc = "tag"
  /\ opts.tagFile # NoFile
  /\ decodeAudio(opts.tagFile) = <<>>
  /\ decodeLog' = Append(decodeLog, opts.tagFile)
  /\ error' = <<[message |-> "Could not decode audio file: ", name |-> opts.tagFile]>>
  /\ pc' = "failed"
  /\ UNCHANGED <<tracks, opts, progress, tempContext, decodedBuffers, tagBuffer, warnings,
                 gainAdjustments, trackDurations, totalOutputDuration, offlineCtx, cursor,
                 trackEvents, tagCursor, tagEvents, renderedBuffer, result>>
  /\ UNCHANGED <<fnVars, appVars, callVars>>

\* lines 138-143: the tag file does not decode; a warning, and tagBuffer stays null
DecodeTagFail ==
  /\ pc = "tag"
  /\ opts.tagFile # NoFile
  /\ decodeAudio(opts.tagFile) = <<>>
  /\ warnings' = warnings + 1
  /\ decodeLog' = Append(decodeLog, opts.tagFile)
  /\ afterTagDecode
  /\ UNCHANGED <<tracks, opts, decodedBuffers, tagBuffer, gainAdjustments, trackDurations,
                 totalOutputDuration, offlineCtx, cursor, trackEvents, tagCursor, tagEvents,
                 renderedBuffer, result, error>>
  /\ UNCHANGED <<fnVars, appVars, callVars>>

\* lines 152-169: gainAdjustments, filled with 1 and overwritten under normalize
planGains(buffers, normalize) ==
  [idx \in 1..Len(buffers) |-> IF normalize THEN gainAdjustment(buffers[idx]) ELSE <<1, 1>>]

PlanGains ==
  /\ pc = "normalize"
  /\ gainAdjustments' = planGains(decodedBuffers, opts.normalize)
  /\ pc' = "timeline"
  /\ UNCHANGED <<tracks, opts, progress, tempContext, decodeLog, decodedBuffers, tagBuffer,
                 warnings, trackDurations, totalOutputDuration, offlineCtx, cursor,
                 trackEvents, tagCursor, tagEvents, renderedBuffer, result, error>>
  /\ UNCHANGED <<fnVars, appVars, callVars>>

\* lines 171-189: the timeline pass and the offline context
Timeline ==
  /\ pc = "timeline"
  /\ trackDurations' =
       [k \in 1..Len(decodedBuffers) |-> playDurationOf(decodedBuffers[k], opts.segmentDuration)]
  /\ totalOutputDuration' = timelineTotal(decodedBuffers, 0, opts.segmentDuration, opts.silenceGap)
  /\ offlineCtx' = <<[numberOfChannels |-> 2,
                      length |-> frameCount(totalOutputDuration'),
                      sampleRate |-> sampleRate]>>
  /\ cursor' = 0
  /\ pc' = "schedule"
  /\ UNCHANGED <<tracks, opts, progress, tempContext, decodeLog, decodedBuffers, tagBuffer,
                 warnings, gainAdjustments, trackEvents, tagCursor, tagEvents,
                 renderedBuffer, result, error>>
  /\ UNCHANGED <<fnVars, appVars, callVars>>

\* line 233: normalize ? gainAdjustments[index] : 1.0
initialGainOf(normalize, adjustment) == IF normalize THEN adjustment ELSE <<1, 1>>

\* (variant: gainNode.gain.value is never set)
gainNodeValueDefault(normalize, adjustment) == <<1, 1>>

\* lines 211-216: the gain node's own value, 1 unless normalize sets it
gainNodeValue(normalize, adjustment) == IF normalize THEN adjustment ELSE <<1, 1>>

\* (variant: no Math.max, the fade may start before the window)
fadeStartTimeUnclamped(startTime, endTime, fadeDuration) == endTime - fadeDuration

\* line 230: Math.max(startTime, endTime - fadeDuration)
fadeStartTimeOf(startTime, endTime, fadeDuration) == Max(startTime, endTime - fadeDuration)

\* lines 208-236: the source and gain node scheduled for one track.  value is
\* gainNode.gain.value; setTime/setValue are the setValueAtTime event;
\* rampEnd/rampTarget are the linearRampToValueAtTime event.
trackEvent(index, normalize, adjustment, playDuration, startTime, fadeDuration) ==
  LET endTime       == startTime + playDuration
      fadeStartTime == fadeStartTimeOf(startTime, endTime, fadeDuration)
  IN  [index      |-> index,
       start      |-> startTime,
       stop       |-> endTime,
       value      |-> gainNodeValue(normalize, adjustment),
       setTime    |-> fadeStartTime,
       setValue   |-> initialGainOf(normalize, adjustment),
       rampEnd    |-> endTime,
       rampTarget |-> 0]

\* (variant: the cursor advances by the play duration only)
cursorAfterNoGap(c, playDuration, silenceGap) == c + playDuration

\* line 239: cursor += playDuration + silenceGap
cursorAfter(c, playDuration, silenceGap) == c + playDuration + silenceGap

\* lines 207-240: one iteration of the scheduling loop; index is Len(trackEvents)
ScheduleTrack ==
  /\ pc = "schedule"
  /\ Len(trackEvents) < Len(decodedBuffers)
  /\ LET index == Len(trackEvents)
     IN  /\ trackEvents' = Append(trackEvents,
                             trackEvent(index, opts.normalize, gainAdjustments[index + 1],
                                        trackDurations[index + 1], cursor, opts.fadeDuration))
         /\ cursor' = cursorAfter(cursor, trackDurations[index + 1], opts.silenceGap)
  /\ UNCHANGED <<pc, tracks, opts, progress, tempContext, decodeLog, decodedBuffers, tagBuffer,
                 warnings, gainAdjustments, trackDurations, totalOutputDuration, offlineCtx,
                 tagCursor, tagEvents, renderedBuffer, result, error>>
  /\ UNCHANGED <<fnVars, appVars, callVars>>

\* line 240: the loop ends
ScheduleDone ==
  /\ pc = "schedule"
  /\ Len(trackEvents) = Len(decodedBuffers)
  /\ pc' = "tags"
  /\ UNCHANGED <<tracks, opts, progress, tempContext, decodeLog, decodedBuffers, tagBuffer,
                 warnings, gainAdjustments, trackDurations, totalOutputDuration, offlineCtx,
                 cursor, trackEvents, tagCursor, tagEvents, renderedBuffer, result, error>>
  /\ UNCHANGED <<fnVars, appVars, callVars>>

\* line 243: tagBuffer && tagInterval > 0
tagsWanted(tb, tagInterval) == tb # <<>> /\ tagInterval > 0

\* lines 243-249: enter the watermark loop
ScheduleTagsStart ==
  /\ pc = "tags"
  /\ tagsWanted(tagBuffer, opts.tagInterval)
  /\ tagCursor' = firstTagTime(totalOutputDuration)
  /\ pc' = "tagloop"
  /\ UNCHANGED <<tracks, opts, progress, tempContext, decodeLog, decodedBuffers, tagBuffer,
                 warnings, gainAdjustments, trackDurations, totalOutputDuration, offlineCtx,
                 cursor, trackEvents, tagEvents, renderedBuffer, result, error>>
  /\ UNCHANGED <<fnVars, appVars, callVars>>

\* line 243: the condition is false, nothing is scheduled
ScheduleTagsSkip ==
  /\ pc = "tags"
  /\ ~tagsWanted(tagBuffer, opts.tagInterval)
  /\ pc' = "scheduled"
  /\ UNCHANGED <<tracks, opts, progress, tempContext, decodeLog, decodedBuffers, tagBuffer,
                 warnings, gainAdjustments, trackDurations, totalOutputDuration, offlineCtx,
                 cursor, trackEvents, tagCursor, tagEvents, renderedBuffer, result, error>>
  /\ UNCHANGED <<fnVars, appVars, callVars>>

\* lines 252-261: the source and gain node scheduled for one watermark (gain 0.4 = 2/5,
\* squared 4/25, no automation)
tagEvent(startTime) == [start |-> startTime, value |-> <<4, 25>>]

\* (variant: the loop without tagCursor += tagInterval)
ScheduleTagNoAdvance ==
  /\ pc = "tagloop"
  /\ tagLoopCondition(tagCursor, totalOutputDuration)
  /\ tagEvents' = Append(tagEvents, tagEvent(tagCursor))
  /\ UNCHANGED <<pc, tracks, opts, progress, tempContext, decodeLog, decodedBuffers, tagBuffer,
                 warnings, gainAdjustments, trackDurations, totalOutputDuration, offlineCtx,
                 cursor, trackEvents, tagCursor, renderedBuffer, result, error>>
  /\ UNCHANGED <<fnVars, appVars, callVars>>

\* lines 251-264: one iteration of the watermark loop
ScheduleTag ==
  /\ pc = "tagloop"
  /\ tagLoopCondition(tagCursor, totalOutputDuration)
  /\ tagEvents' = Append(tagEvents, tagEvent(tagCursor))
  /\ tagCursor' = tagCursor + opts.tagInterval
  /\ UNCHANGED <<pc, tracks, opts, progress, tempContext, decodeLog, decodedBuffers, tagBuffer,
                 warnings, gainAdjustments, trackDurations, totalOutputDuration, offlineCtx,
                 cursor, trackEvents, renderedBuffer, result, error>>
  /\ UNCHANGED <<fnVars, appVars, callVars>>

\* line 251: the loop ends
ScheduleTagsDone ==
  /\ pc = "tagloop"
  /\ ~tagLoopCondition(tagCursor, totalOutputDuration)
  /\ pc' = "scheduled"
  /\ UNCHANGED <<tracks, opts, progress, tempContext, decodeLog, decodedBuffers, tagBuffer,
                 warnings, gainAdjustments, trackDurations, totalOutputDuration, offlineCtx,
                 cursor, trackEvents, tagCursor, tagEvents, renderedBuffer, result, error>>
  /\ UNCHANGED <<fnVars, appVars, callVars>>

\* lines 267-275: report 60, render, report 80 and 90
Render ==
  /\ pc = "scheduled"
  /\ renderedBuffer' = <<[numberOfChannels |-> offlineCtx[1].numberOfChannels,
                          length |-> offlineCtx[1].length,
                          sampleRate |-> offlineCtx[1].sampleRate]>>
  /\ progress' = progress \o <<60, 80, 90>>
  /\ pc' = "encode"
  /\ UNCHANGED <<tracks, opts, tempContext, decodeLog, decodedBuffers, tagBuffer, warnings,
                 gainAdjustments, trackDurations, totalOutputDuration, offlineCtx, cursor,
                 trackEvents, tagCursor, tagEvents, result, error>>
  /\ UNCHANGED <<fnVars, appVars, callVars>>

\* bufferToWav.  A buffer is [numberOfChannels, length, sampleRate] and, where
\* samples are read, channels: one sequence of samples (hundredths) per channel.

\* lines 75-78: view.setUint16(pos, data, true), the bytes written
setUint16(data) == <<data % 256, (data \div 256) % 256>>

\* (variant: the littleEndian flag left out, most significant byte first)
setUint32BigEndian(data) ==
  <<(data \div 16777216) % 256, (data \div 65536) % 256, (data \div 256) % 256, data % 256>>

\* lines 80-83: view.setUint32(pos, data, true), the bytes written
setUint32(data) ==
  <<data % 256, (data \div 256) % 256, (data \div 65536) % 256, (data \div 16777216) % 256>>

\* line 32: the size of the file
wavLength(buffer) == buffer.length * buffer.numberOfChannels * 2 + 44

\* lines 42-55: the header up to and including the "data" tag; pos is its length
wavHeaderToDataTag(buffer) ==
  LET numOfChan == buffer.numberOfChannels
  IN  setUint32(1179011410)                              \* 0x46464952 "RIFF"
        \o setUint32(wavLength(buffer) - 8)
        \o setUint32(1163280727)                         \* 0x45564157 "WAVE"
        \o setUint32(544501094)                          \* 0x20746d66 "fmt "
        \o setUint32(16)
        \o setUint16(1)
        \o setUint16(numOfChan)
        \o setUint32(buffer.sampleRate)
        \o setUint32(buffer.sampleRate * 2 * numOfChan)
        \o setUint16(numOfChan * 2)
        \o setUint16(16)
        \o setUint32(1635017060)                         \* 0x61746164 "data"

\* (variant: the 4 bytes of the length field itself are not subtracted)
dataChunkLengthOffByFour(length, pos) == length - pos

\* line 56: length - pos - 4, pos the write position after the "data" tag
dataChunkLength(length, pos) == length - pos - 4

\* lines 42-56: the whole header
wavHeader(buffer) ==
  LET h == wavHeaderToDataTag(buffer)
  IN  h \o setUint32(dataChunkLength(wavLength(buffer), Len(h)))

\* x | 0 for a quotient a / b within the 32-bit range: the fraction is dropped,
\* toward zero
TruncDiv(a, b) == IF a >= 0 THEN a \div b ELSE -((-a) \div b)

\* line 65: Math.max(-1, Math.min(1, sample)), on hundredths
clampSample(sample) == Max(-100, Min(100, sample))

\* lines 65-66: clamp, then (0.5 + sample < 0 ? sample * 32768 : sample * 32767) | 0.
\* The addition binds tighter than the comparison, so the condition of the
\* conditional is 0.5 + sample < 0.
quantize(sample) ==
  LET clamped == clampSample(sample)
  IN  IF 50 + clamped < 0
        THEN TruncDiv(clamped * 32768, 100)
        ELSE TruncDiv(clamped * 32767, 100)

\* line 67: view.setInt16(44 + offset, sample, true), the bytes written
\* (two's complement, least significant byte first)
setInt16(value) == setUint16(value % 65536)

\* lines 39, 57-71: pos, which the header writers advanced to the header's
\* length, is the frame index the data loop starts from
dataLoopStart(pos) == pos

\* lines 62-71: the bytes the data loop writes from offset 44 on, in the order
\* written: for pos up to buffer.length - 1, one 16-bit value per channel
wavDataWritten(buffer, pos) ==
  LET numOfChan == buffer.numberOfChannels
      frames    == Max(0, buffer.length - pos)
  IN  [j \in 1..(frames * numOfChan * 2) |->
         LET value == (j - 1) \div 2
             frame == pos + value \div numOfChan
             i     == value % numOfChan
         IN  setInt16(quantize(buffer.channels[i + 1][frame + 1]))[((j - 1) % 2) + 1]]

\* lines 30-73: the bytes of the file: a zero-filled ArrayBuffer of the file's
\* size, the header from offset 0, the data loop's bytes from offset 44
bufferToWav(buffer) ==
  LET h       == wavHeader(buffer)
      written == wavDataWritten(buffer, dataLoopStart(Len(h)))
  IN  [k \in 1..wavLength(buffer) |->
         IF k <= Len(h) THEN h[k]
         ELSE IF k - 44 <= Len(written) THEN written[k - 44]
         ELSE 0]

\* lines 30-33, 73: the blob bufferToWav returns, by its type, its size in bytes
\* and its header
wavBlobOf(buffer) ==
  [type |-> "audio/wav", size |-> wavLength(buffer), header |-> wavHeader(buffer)]

\* (variant: a second blob under another type for the mp3 output)
outputsWithOwnMp3(wavBlob) ==
  [wav |-> wavBlob, mp3 |-> [wavBlob EXCEPT !.type = "audio/mpeg"]]

\* line 282: { wav: wavBlob, mp3: wavBlob }
outputsOf(wavBlob) == [wav |-> wavBlob, mp3 |-> wavBlob]

\* lines 277-282: encode, report 100, return both outputs
Encode ==
  /\ pc = "encode"
  /\ LET wavBlob == wavBlobOf(renderedBuffer[1])
     IN  result' = <<outputsOf(wavBlob)>>
  /\ progress' = Append(progress, 100)
  /\ pc' = "done"
  /\ UNCHANGED <<tracks, opts, tempContext, decodeLog, decodedBuffers, tagBuffer, warnings,
                 gainAdjustments, trackDurations, totalOutputDuration, offlineCtx, cursor,
                 trackEvents, tagCursor, tagEvents, renderedBuffer, error>>
  /\ UNCHANGED <<fnVars, appVars, callVars>>

\* The invocation is over (resolved or rejected); its locals are gone and the
\* function can be called again.
EngineReset ==
  /\ pc' = "idle"
  /\ tracks' = <<>>
  /\ opts' = DefaultOptions
  /\ progress' = <<>>
  /\ tempContext' = "none"
  /\ decodeLog' = <<>>
  /\ decodedBuffers' = <<>>
  /\ tagBuffer' = <<>>
  /\ warnings' = 0
  /\ gainAdjustments' = <<>>
  /\ trackDurations' = <<>>
  /\ totalOutputDuration' = 0
  /\ offlineCtx' = <<>>
  /\ cursor' = 0
  /\ trackEvents' = <<>>
  /\ tagCursor' = 0
  /\ tagEvents' = <<>>
  /\ renderedBuffer' = <<>>
  /\ result' = <<>>
  /\ error' = <<>>

Return ==
  /\ pc \in {"done", "failed"}
  /\ EngineReset
  /\ UNCHANGED <<fnVars, appVars, callVars>>

Next ==
  \/ InvokeEmpty
  \/ InvokeStart
  \/ DecodeTrackOk
  \/ DecodeTrackFail
  \/ DecodeDone
  \/ DecodeTagNone
  \/ DecodeTagOk
  \/ DecodeTagFail
  \/ PlanGains
  \/ Timeline
  \/ ScheduleTrack
  \/ ScheduleDone
  \/ ScheduleTagsStart
  \/ ScheduleTagsSkip
  \/ ScheduleTag
  \/ ScheduleTagsDone
  \/ Render
  \/ Encode
  \/ Return

Spec == Init /\ [][Next]_vars

\* ---------------------------------------------------------------------------
\* The watermark step (lines 242-265) on totals and intervals of its own: the
\* invocation stands before line 243 with a total duration, a tag buffer or
\* none, and a tag interval.

LoopTotals ==
  {0, Ms(2), Ms(300), Sec(4), Sec(5), Sec(10), Ms(10002), Sec(35), Sec(65), Ms(65002), Sec(90)}

LoopIntervals == {0, Ms(250), Sec(10), Sec(30), Sec(60)}

InitTagLoop ==
  /\ pc = "tags"
  /\ totalOutputDuration \in LoopTotals
  /\ tagBuffer \in {<<>>, decodeAudio("tag.wav")}
  /\ opts \in {[DefaultOptions EXCEPT !.tagFile = "tag.wav", !.tagInterval = i] : i \in LoopIntervals}
  /\ tracks = <<>>
  /\ progress = <<>>
  /\ tempContext = "closed"
  /\ decodeLog = <<>>
  /\ decodedBuffers = <<>>
  /\ warnings = 0
  /\ gainAdjustments = <<>>
  /\ trackDurations = <<>>
  /\ offlineCtx = <<>>
  /\ cursor = 0
  /\ trackEvents = <<>>
  /\ tagCursor = 0
  /\ tagEvents = <<>>
  /\ renderedBuffer = <<>>
  /\ result = <<>>
  /\ error = <<>>
  /\ FnInit
  /\ AppInit
  /\ CallInit

NextTagLoop ==
  \/ ScheduleTagsStart
  \/ ScheduleTagsSkip
  \/ ScheduleTag
  \/ ScheduleTagsDone

\* the loop body is synchronous code: it runs on until its condition fails
SpecTagLoop == InitTagLoop /\ [][NextTagLoop]_vars /\ WF_vars(NextTagLoop)

\* ---------------------------------------------------------------------------
\* Invocations of createDemoMix side by side, from their decoded buffers on
\* (lines 150-265).  Every variable of the function is declared inside it
\* (const / let): each invocation has its own record of locals in calls, and
\* the module holds no variable outside the function.  The steps are those of
\* the single invocation above, on the invocation's record.

MaxCallTracks == 2

CallBuffers == {AudioBufferOf("verse.mp3"), AudioBufferOf("loud.mp3")}

CallBufferLists == UNION { [1..n -> CallBuffers] : n \in 1..MaxCallTracks }

CallOptions ==
  {[DefaultOptions EXCEPT !.normalize = nz, !.tagFile = tf] :
     nz \in BOOLEAN, tf \in {NoFile, "tag.wav"}}

\* lines 100-148: the invocation has decoded its tracks and its tag
CallInvoke(id) ==
  /\ calls[id].pc = "idle"
  /\ \E buffers \in CallBufferLists, o \in CallOptions :
       calls' = [calls EXCEPT ![id] =
                   [IdleCall EXCEPT !.pc = "normalize",
                                    !.decodedBuffers = buffers,
                                    !.opts = o,
                                    !.tagBuffer = IF o.tagFile = NoFile THEN <<>>
                                                  ELSE decodeAudio(o.tagFile)]]
  /\ UNCHANGED <<vars, fnVars, appVars>>

\* lines 152-169
CallPlanGains(id) ==
  /\ calls[id].pc = "normalize"
  /\ calls' = [calls EXCEPT ![id].gainAdjustments =
                              planGains(calls[id].decodedBuffers, calls[id].opts.normalize),
                            ![id].pc = "timeline"]
  /\ UNCHANGED <<vars, fnVars, appVars>>

\* lines 171-189 and 205
CallTimeline(id) ==
  /\ calls[id].pc = "timeline"
  /\ LET c == calls[id]
     IN  calls' = [calls EXCEPT
           ![id].trackDurations =
              [k \in 1..Len(c.decodedBuffers) |->
                 playDurationOf(c.decodedBuffers[k], c.opts.segmentDuration)],
           ![id].totalOutputDuration =
              timelineTotal(c.decodedBuffers, 0, c.opts.segmentDuration, c.opts.silenceGap),
           ![id].cursor = 0,
           ![id].pc = "schedule"]
  /\ UNCHANGED <<vars, fnVars, appVars>>

\* (variant: one cursor, declared outside the function, read by every invocation)
cursorOfShared(id) == calls[1].cursor

\* line 205: let cursor, a local of the invocation
cursorOf(id) == calls[id].cursor

\* lines 207-240
CallScheduleTrack(id) ==
  /\ calls[id].pc = "schedule"
  /\ Len(calls[id].trackEvents) < Len(calls[id].decodedBuffers)
  /\ LET c     == calls[id]
         index == Len(c.trackEvents)
     IN  calls' = [calls EXCEPT
           ![id].trackEvents =
              Append(c.trackEvents,
                     trackEvent(index, c.opts.normalize, c.gainAdjustments[index + 1],
                                c.trackDurations[index + 1], cursorOf(id), c.opts.fadeDuration)),
           ![id].cursor =
              cursorAfter(cursorOf(id), c.trackDurations[index + 1], c.opts.silenceGap)]
  /\ UNCHANGED <<vars, fnVars, appVars>>

\* line 240
CallScheduleDone(id) ==
  /\ calls[id].pc = "schedule"
  /\ Len(calls[id].trackEvents) = Len(calls[id].decodedBuffers)
  /\ calls' = [calls EXCEPT ![id].pc = "tags"]
  /\ UNCHANGED <<vars, fnVars, appVars>>

\* lines 243-249
CallTagsStart(id) ==
  /\ calls[id].pc = "tags"
  /\ tagsWanted(calls[id].tagBuffer, calls[id].opts.tagInterval)
  /\ calls' = [calls EXCEPT ![id].tagCursor = firstTagTime(calls[id].totalOutputDuration),
                            ![id].pc = "tagloop"]
  /\ UNCHANGED <<vars, fnVars, appVars>>

\* line 243
CallTagsSkip(id) ==
  /\ calls[id].pc = "tags"
  /\ ~tagsWanted(calls[id].tagBuffer, calls[id].opts.tagInterval)
  /\ calls' = [calls EXCEPT ![id].pc = "scheduled"]
  /\ UNCHANGED <<vars, fnVars, appVars>>

\* lines 251-264
CallScheduleTag(id) ==
  /\ calls[id].pc = "tagloop"
  /\ tagLoopCondition(calls[id].tagCursor, calls[id].totalOutputDuration)
  /\ calls' = [calls EXCEPT
       ![id].tagEvents = Append(calls[id].tagEvents, tagEvent(calls[id].tagCursor)),
       ![id].tagCursor = calls[id].tagCursor + calls[id].opts.tagInterval]
  /\ UNCHANGED <<vars, fnVars, appVars>>

\* line 251
CallTagsDone(id) ==
  /\ calls[id].pc = "tagloop"
  /\ ~tagLoopCondition(calls[id].tagCursor, calls[id].totalOutputDuration)
  /\ calls' = [calls EXCEPT ![id].pc = "scheduled"]
  /\ UNCHANGED <<vars, fnVars, appVars>>

\* lines 267-282: the invocation renders, encodes and returns; its locals are gone
CallReturn(id) ==
  /\ calls[id].pc = "scheduled"
  /\ calls' = [calls EXCEPT ![id] = IdleCall]
  /\ UNCHANGED <<vars, fnVars, appVars>>

NextCalls ==
  \E id \in CallIds :
    \/ CallInvoke(id)
    \/ CallPlanGains(id)
    \/ CallTimeline(id)
    \/ CallScheduleTrack(id)
    \/ CallScheduleDone(id)
    \/ CallTagsStart(id)
    \/ CallTagsSkip(id)
    \/ CallScheduleTag(id)
    \/ CallTagsDone(id)
    \/ CallReturn(id)

SpecCalls == Init /\ [][NextCalls]_allVars

\* ---------------------------------------------------------------------------
\* The encoder and the loudness analyzer applied to small buffers of their own.

MaxFrames == 46

\* samples beyond full scale are included: the encoder clamps them
SampleValues == -150..150

Seeds == 0..2

sampleOf(c, f, seed) == ((f * 37 + c * 11 + seed * 53) % 301) - 150

\* an AudioBuffer as bufferToWav and calculateRMS read it: numberOfChannels,
\* length, sampleRate, getChannelData(c) as channels[c + 1]; data is
\* getChannelData(0)
TestBuffer(numOfChan, length, seed) ==
  LET channels == [c \in 1..numOfChan |-> [f \in 1..length |-> sampleOf(c - 1, f - 1, seed)]]
  IN  [numberOfChannels |-> numOfChan,
       length           |-> length,
       sampleRate       |-> sampleRate,
       duration         |-> 0,
       channels         |-> channels,
       data             |-> channels[1]]

TestBuffers ==
  {TestBuffer(numOfChan, length, seed) : numOfChan \in 1..2, length \in 1..MaxFrames, seed \in Seeds}

PickBuffer ==
  /\ fnApplied = "none"
  /\ testBuffer' \in {<<b>> : b \in TestBuffers}
  /\ fnApplied' = "picked"
  /\ UNCHANGED <<wavFile, rmsValue, quantIn, quantOut>>
  /\ UNCHANGED <<vars, appVars, callVars>>

\* bufferToWav(buffer)
ApplyBufferToWav ==
  /\ fnApplied = "picked"
  /\ wavFile' = <<bufferToWav(testBuffer[1])>>
  /\ fnApplied' = "wav"
  /\ UNCHANGED <<testBuffer, rmsValue, quantIn, quantOut>>
  /\ UNCHANGED <<vars, appVars, callVars>>

\* calculateRMS(buffer)
ApplyCalculateRMS ==
  /\ fnApplied = "picked"
  /\ rmsValue' = <<calculateRMS(testBuffer[1])>>
  /\ fnApplied' = "rms"
  /\ UNCHANGED <<testBuffer, wavFile, quantIn, quantOut>>
  /\ UNCHANGED <<vars, appVars, callVars>>

\* lines 65-66 on one sample
ApplyQuantize ==
  /\ fnApplied = "none"
  /\ quantIn' \in SampleValues
  /\ quantOut' = quantize(quantIn')
  /\ fnApplied' = "quantize"
  /\ UNCHANGED <<testBuffer, wavFile, rmsValue>>
  /\ UNCHANGED <<vars, appVars, callVars>>

FnReturn ==
  /\ fnApplied \in {"wav", "rms", "quantize"}
  /\ fnApplied' = "none"
  /\ testBuffer' = <<>>
  /\ wavFile' = <<>>
  /\ rmsValue' = <<>>
  /\ quantIn' = 0
  /\ quantOut' = 0
  /\ UNCHANGED <<vars, appVars, callVars>>

NextFn ==
  \/ PickBuffer
  \/ ApplyBufferToWav
  \/ ApplyCalculateRMS
  \/ ApplyQuantize
  \/ FnReturn

SpecFn == Init /\ [][NextFn]_<<vars, fnVars, appVars, callVars>>

\* ---------------------------------------------------------------------------
\* The App component (App.tsx) around the engine.  A user action is one event
\* handler; the render request leaves a 50 ms timer whose callback calls
\* createDemoMix with the values the handler's closure captured.  The theme,
\* the toast and the drag highlight are display state and are left out, as is
\* the download of a finished result.

MaxAppTracks == 2

AppFiles == {"intro.wav", "corrupt.mp3"}

AppTagFiles == {"tag.wav", "corrupt.mp3"}

\* positions of the interval slider (min 10, max 60, step 5) that are used
SliderChoices == {Sec(10), Sec(30)}

\* the files of one drop or selection that pass the audio/ filter
FileBatches == UNION { [1..n -> AppFiles] : n \in 0..MaxAppTracks }

NoResult == demoWav' = <<>> /\ demoMp3' = <<>> /\ blobs' = <<>> /\ renderedFrom' = <<>>

\* the record of a handler that touches the track list
ListOp(op) == lastOp' = [op |-> op, hadResult |-> blobs # <<>>]

\* the record of any other handler
OtherOp == lastOp' = [op |-> "other", hadResult |-> FALSE]

\* App.tsx lines 39-52, behind the dropzone's disabled flag (line 253)
filesAdded(files) ==
  /\ appTracks' = appTracks \o [k \in 1..Len(files) |-> AudioTrack(files[k])]
  /\ NoResult
  /\ ListOp("add")
  /\ UNCHANGED <<appSettings, isProcessing, renderTimer, alerts>>

HandleFilesAdded ==
  /\ ~isProcessing
  /\ \E files \in FileBatches :
       /\ Len(appTracks) + Len(files) <= MaxAppTracks
       /\ filesAdded(files)
  /\ UNCHANGED <<vars, fnVars, callVars>>

RemoveAt(list, i) == [k \in 1..(Len(list) - 1) |-> IF k < i THEN list[k] ELSE list[k + 1]]

\* (variant: the track is removed and the result is kept)
HandleRemoveTrackKeepsResult ==
  /\ \E i \in 1..Len(appTracks) : appTracks' = RemoveAt(appTracks, i)
  /\ ListOp("remove")
  /\ UNCHANGED <<appSettings, isProcessing, demoWav, demoMp3, blobs, renderTimer, alerts,
                 renderedFrom>>
  /\ UNCHANGED <<vars, fnVars, callVars>>

\* App.tsx lines 83-92; ids are unique, so the id names one position
HandleRemoveTrack ==
  /\ \E i \in 1..Len(appTracks) : appTracks' = RemoveAt(appTracks, i)
  /\ NoResult
  /\ ListOp("remove")
  /\ UNCHANGED <<appSettings, isProcessing, renderTimer, alerts>>
  /\ UNCHANGED <<vars, fnVars, callVars>>

\* App.tsx lines 117-131; index is 0-based as in the code
MoveTrack ==
  \E index \in 0..(Len(appTracks) - 1), direction \in {"up", "down"} :
    IF \/ (direction = "up" /\ index = 0)
       \/ (direction = "down" /\ index = Len(appTracks) - 1)
      THEN /\ ListOp("boundary")
           /\ UNCHANGED <<appTracks, appSettings, isProcessing, demoWav, demoMp3, blobs,
                          renderTimer, alerts, renderedFrom>>
           /\ UNCHANGED <<vars, fnVars, callVars>>
      ELSE LET targetIndex == IF direction = "up" THEN index - 1 ELSE index + 1
           IN  /\ appTracks' = [appTracks EXCEPT ![index + 1] = appTracks[targetIndex + 1],
                                                  ![targetIndex + 1] = appTracks[index + 1]]
               /\ NoResult
               /\ ListOp("swap")
               /\ UNCHANGED <<appSettings, isProcessing, renderTimer, alerts>>
               /\ UNCHANGED <<vars, fnVars, callVars>>

\* App.tsx lines 94-115; the answer to window.confirm is the user's
HandleClearSession ==
  \E confirmed \in BOOLEAN :
    IF (Len(appTracks) > 0 \/ appSettings.tagFile # NoFile \/ demoWav # <<>>) /\ ~confirmed
      THEN UNCHANGED <<appVars, vars, fnVars, callVars>>
      ELSE /\ appTracks' = <<>>
           /\ NoResult
           /\ ListOp("clear")
           /\ appSettings' = [normalize |-> TRUE, tagFile |-> NoFile, tagInterval |-> Sec(30)]
           /\ UNCHANGED <<isProcessing, renderTimer, alerts>>
           /\ UNCHANGED <<vars, fnVars, callVars>>

\* App.tsx line 383
SetNormalize ==
  /\ \E checked \in BOOLEAN : appSettings' = [appSettings EXCEPT !.normalize = checked]
  /\ OtherOp
  /\ UNCHANGED <<appTracks, isProcessing, demoWav, demoMp3, blobs, renderTimer, alerts,
                 renderedFrom>>
  /\ UNCHANGED <<vars, fnVars, callVars>>

\* App.tsx lines 54-58, 71-80 (a file chosen or dropped) and line 423 (removed)
SetTagFile ==
  /\ \E file \in AppTagFiles \cup {NoFile} :
       /\ file = NoFile => appSettings.tagFile # NoFile
       /\ appSettings' = [appSettings EXCEPT !.tagFile = file]
  /\ OtherOp
  /\ UNCHANGED <<appTracks, isProcessing, demoWav, demoMp3, blobs, renderTimer, alerts,
                 renderedFrom>>
  /\ UNCHANGED <<vars, fnVars, callVars>>

\* App.tsx lines 427-439: the slider is shown with a tag file
SetTagInterval ==
  /\ appSettings.tagFile # NoFile
  /\ \E value \in SliderChoices : appSettings' = [appSettings EXCEPT !.tagInterval = value]
  /\ OtherOp
  /\ UNCHANGED <<appTracks, isProcessing, demoWav, demoMp3, blobs, renderTimer, alerts,
                 renderedFrom>>
  /\ UNCHANGED <<vars, fnVars, callVars>>

\* (variant: the button is not disabled while a render is in progress)
HandleCreateDemoWhileProcessing ==
  /\ Len(appTracks) # 0
  /\ isProcessing' = TRUE
  /\ NoResult
  /\ renderTimer' = <<[tracks |-> appTracks, settings |-> appSettings]>>
  /\ alerts' = 0
  /\ OtherOp
  /\ UNCHANGED <<appTracks, appSettings>>
  /\ UNCHANGED <<vars, fnVars, callVars>>

\* App.tsx lines 133-142, 163, behind the button's disabled flag (line 455):
\* the synchronous part of handleCreateDemo up to setTimeout(..., 50).  alerts
\* counts the alert dialogs since the last request.
HandleCreateDemo ==
  /\ ~(Len(appTracks) = 0 \/ isProcessing)
  /\ Len(appTracks) # 0
  /\ isProcessing' = TRUE
  /\ NoResult
  /\ renderTimer' = <<[tracks |-> appTracks, settings |-> appSettings]>>
  /\ alerts' = 0
  /\ OtherOp
  /\ UNCHANGED <<appTracks, appSettings>>
  /\ UNCHANGED <<vars, fnVars, callVars>>

\* App.tsx lines 143-149 with part_001 lines 100-108: the options of the call;
\* what the App does not pass takes its default
optionsOfApp(settings) ==
  [normalize       |-> settings.normalize,
   segmentDuration |-> Sec(25),
   fadeDuration    |-> Ms(500),
   silenceGap      |-> Ms(300),
   tagFile         |-> settings.tagFile,
   tagInterval     |-> settings.tagInterval]

\* App.tsx lines 142-149 with part_001 lines 100-122: the timer's callback calls
\* createDemoMix with the captured track list, which is not empty
TimerFires ==
  /\ renderTimer # <<>>
  /\ pc = "idle"
  /\ renderTimer' = <<>>
  /\ tracks' = renderTimer[1].tracks
  /\ opts' = optionsOfApp(renderTimer[1].settings)
  /\ progress' = Append(progress, 5)
  /\ tempContext' = "open"
  /\ pc' = "decode"
  /\ UNCHANGED <<decodeLog, decodedBuffers, tagBuffer, warnings, gainAdjustments,
                 trackDurations, totalOutputDuration, offlineCtx, cursor, trackEvents,
                 tagCursor, tagEvents, renderedBuffer, result, error>>
  /\ UNCHANGED <<appTracks, appSettings, isProcessing, demoWav, demoMp3, blobs, alerts,
                 renderedFrom, lastOp>>
  /\ UNCHANGED <<fnVars, callVars>>

\* the steps of createDemoMix between its call and its settling
EngineStep ==
  \/ DecodeTrackOk
  \/ DecodeTrackFail
  \/ DecodeDone
  \/ DecodeTagNone
  \/ DecodeTagOk
  \/ DecodeTagFail
  \/ PlanGains
  \/ Timeline
  \/ ScheduleTrack
  \/ ScheduleDone
  \/ ScheduleTagsStart
  \/ ScheduleTagsSkip
  \/ ScheduleTag
  \/ ScheduleTagsDone
  \/ Render
  \/ Encode

\* URL.createObjectURL(blob): a handle on the blob
createObjectURL(blob) == [href |-> "blob:", type |-> blob.type, size |-> blob.size]

\* App.tsx lines 150-153, 158-161: the await resolved; finally
RenderResolved ==
  /\ pc = "done"
  /\ isProcessing
  /\ demoWav' = <<createObjectURL(result[1].wav)>>
  /\ demoMp3' = <<createObjectURL(result[1].mp3)>>
  /\ blobs' = <<[wav |-> result[1].wav, mp3 |-> result[1].mp3]>>
  /\ renderedFrom' = <<tracks>>
  /\ isProcessing' = FALSE
  /\ EngineReset
  /\ UNCHANGED <<appTracks, appSettings, renderTimer, alerts, lastOp>>
  /\ UNCHANGED <<fnVars, callVars>>

\* (variant: no finally block after the catch)
RenderRejectedNoFinally ==
  /\ pc = "failed"
  /\ isProcessing
  /\ alerts' = alerts + 1
  /\ EngineReset
  /\ UNCHANGED <<appTracks, appSettings, isProcessing, demoWav, demoMp3, blobs, renderTimer,
                 renderedFrom, lastOp>>
  /\ UNCHANGED <<fnVars, callVars>>

\* App.tsx lines 154-161: the await rejected; catch (alert), finally
RenderRejected ==
  /\ pc = "failed"
  /\ isProcessing
  /\ alerts' = alerts + 1
  /\ isProcessing' = FALSE
  /\ EngineReset
  /\ UNCHANGED <<appTracks, appSettings, demoWav, demoMp3, blobs, renderTimer, renderedFrom,
                 lastOp>>
  /\ UNCHANGED <<fnVars, callVars>>

\* App.tsx line 14 and line 147: the progress the App shows
appProgress ==
  IF isProcessing /\ progress # <<>> THEN progress[Len(progress)] ELSE 0

\* what runs without the user: the timer, the engine, the handlers of its promise
RenderStep ==
  \/ TimerFires
  \/ EngineStep
  \/ RenderResolved
  \/ RenderRejected

NextApp ==
  \/ HandleFilesAdded
  \/ HandleRemoveTrack
  \/ MoveTrack
  \/ HandleClearSession
  \/ SetNormalize
  \/ SetTagFile
  \/ SetTagInterval
  \/ HandleCreateDemo
  \/ RenderStep

SpecApp == Init /\ [][NextApp]_allVars

\* The event loop runs a due timer and every continuation of a settled promise;
\* decoding and rendering settle.  The user owes no action.
SpecAppFair == SpecApp /\ WF_allVars(RenderStep)

\* The value of gainNode.gain at time t under the automation of lines 215 and
\* 235-236 (setTime <= rampEnd): the node's own value before the setValueAtTime
\* event, the linear ramp between the two events, the ramp's target from
\* rampEnd on.  The result [gain, num, den] stands for gain * num / den, the
\* gain carried by its square.
envelopeAt(e, t) ==
  CASE t < e.setTime  -> [gain |-> e.value, num |-> 1, den |-> 1]
    [] t >= e.rampEnd -> [gain |-> e.setValue, num |-> e.rampTarget, den |-> 1]
    [] OTHER          -> [gain |-> e.setValue, num |-> e.rampEnd - t, den |-> e.rampEnd - e.setTime]


----------------------------------------------------------------------------
(* What the claims speak of, computed from the inputs of the invocation alone *)

NumTracks == Len(tracks)

AllTracksDecode == \A k \in 1..NumTracks : FileLib[tracks[k].file].decodes

\* min(track duration, segmentDuration) of input track k
PlayLength(k) ==
  LET d == FileLib[tracks[k].file].duration
  IN  IF d < opts.segmentDuration THEN d ELSE opts.segmentDuration

SumPlayLengths == SumSeq([k \in 1..NumTracks |-> PlayLength(k)])

ExpectedTotal == SumPlayLengths + opts.silenceGap * (NumTracks - 1)

\* the window of input track k: the tracks before it, each followed by one gap
WindowStart(k) == SumSeq([j \in 1..(k - 1) |-> PlayLength(j) + opts.silenceGap])

WindowEnd(k) == WindowStart(k) + PlayLength(k)

FadeStart(k) ==
  IF WindowEnd(k) - opts.fadeDuration > WindowStart(k)
    THEN WindowEnd(k) - opts.fadeDuration
    ELSE WindowStart(k)

InRange(g) == ~FLess(g, <<1, 4>>) /\ ~FLess(<<9, 1>>, g)

Unity(g) == g[1] = g[2]

GainsPlanned == pc \in {"timeline", "schedule", "tags", "tagloop", "scheduled", "encode", "done"}

TimelineKnown == pc \in {"schedule", "tags", "tagloop", "scheduled", "encode", "done"}

TracksScheduled == pc \in {"tags", "tagloop", "scheduled", "encode", "done"}

TagsScheduled == pc \in {"scheduled", "encode", "done"}

----------------------------------------------------------------------------
(* Claims *)

\* C1: for a non-empty list of decoded tracks the total output duration is the
\* sum of min(track duration, segmentDuration) plus silenceGap * (n - 1); a
\* single track yields exactly its own play length, with no trailing gap.
C1_TotalDuration ==
  TimelineKnown =>
    /\ totalOutputDuration = SumPlayLengths + opts.silenceGap * (NumTracks - 1)
    /\ (NumTracks = 1 => totalOutputDuration = PlayLength(1))

C1_Witness ==
  /\ pc = "done"
  /\ NumTracks = 3
  /\ opts.silenceGap = Ms(300)
  /\ opts.segmentDuration = Sec(25)
  /\ tracks[1].file = "intro.wav" /\ tracks[2].file = "loud.mp3" /\ tracks[3].file = "verse.mp3"
  /\ totalOutputDuration = Ms(300) + Sec(25) + Sec(10) + Ms(600)

\* C2: with normalization on, every gain used in scheduling lies in [0.5, 3.0]
\* (squared: [1/4, 9]); with normalization off, every gain is exactly 1.0.
C2_GainBounds ==
  \A k \in 1..Len(trackEvents) :
    LET e == trackEvents[k]
    IN  IF opts.normalize
          THEN InRange(e.value) /\ InRange(e.setValue)
          ELSE Unity(e.value) /\ Unity(e.setValue)

C2_Witness ==
  /\ pc = "done"
  /\ opts.normalize
  /\ \E j, k \in 1..Len(trackEvents) :
       /\ FEq(trackEvents[j].setValue, <<1, 4>>)
       /\ FEq(trackEvents[k].setValue, <<9, 1>>)

\* C3: with normalization on, a track of measured rms > 0 gets
\* clamp(0.15 / rms, 0.5, 3.0) and a track of measured rms 0 gets exactly 1.0.
\* On squares: gain^2 * rms^2 = 0.0225 where that lies in [1/4, 9].
C3_GainFormula ==
  (opts.normalize /\ GainsPlanned) =>
    \A k \in 1..Len(decodedBuffers) :
      LET rms == calculateRMS(decodedBuffers[k])
          g   == gainAdjustments[k]
      IN  IF rms[1] = 0
            THEN g = <<1, 1>>
            ELSE \* 0.15 / rms < 0.5  iff  0.0225 * 4 < rms^2
                 CASE 225 * 4 * rms[2] < rms[1]  -> FEq(g, <<1, 4>>)
                   [] 225 * rms[2] > 9 * rms[1]  -> FEq(g, <<9, 1>>)
                   [] OTHER                      -> g[1] * rms[1] = 225 * rms[2] * g[2]

C3_Witness ==
  /\ pc = "done"
  /\ opts.normalize
  /\ NumTracks = 3
  /\ tracks[1].file = "silence.wav" /\ tracks[2].file = "verse.mp3" /\ tracks[3].file = "loud.mp3"
  /\ gainAdjustments[1] = <<1, 1>>
  /\ FEq(gainAdjustments[2], <<225 * 5, 800>>)
  /\ FEq(gainAdjustments[3], <<1, 4>>)

\* C4: a call with an empty track list fails before any decode is attempted,
\* before any audio context or buffer is allocated and before any progress
\* value is reported.
C4_EmptyFailsFirst ==
  (pc # "idle" /\ tracks = <<>>) =>
    /\ pc = "failed"
    /\ error # <<>> /\ error[1].message = "No tracks provided"
    /\ decodeLog = <<>>
    /\ decodedBuffers = <<>>
    /\ tempContext = "none"
    /\ offlineCtx = <<>>
    /\ renderedBuffer = <<>>
    /\ progress = <<>>
    /\ result = <<>>

C4_Witness ==
  pc = "failed" /\ tracks = <<>> /\ error # <<>> /\ progress = <<>> /\ opts.tagFile = "tag.wav"

\* C5: if decoding of any track fails, the invocation fails with an error that
\* carries the name of the failing track; no output is produced, and neither
\* the decode-complete milestone (45) nor any later one is reported.
C5_DecodeFailureFatal ==
  (pc # "idle" /\ ~AllTracksDecode) =>
    /\ pc \in {"decode", "failed"}
    /\ result = <<>>
    /\ renderedBuffer = <<>>
    /\ \A k \in 1..Len(progress) : progress[k] < 45
    /\ pc = "failed" =>
         LET bad == Len(decodedBuffers) + 1
         IN  /\ ~FileLib[tracks[bad].file].decodes
             /\ \A j \in 1..(bad - 1) : FileLib[tracks[j].file].decodes
             /\ error # <<>>
             /\ error[1].message = "Could not decode audio file: "
             /\ error[1].name = tracks[bad].name

C5_Witness ==
  /\ pc = "failed"
  /\ NumTracks = 3
  /\ tracks[1].file = "verse.mp3" /\ tracks[2].file = "corrupt.mp3" /\ tracks[3].file = "loud.mp3"
  /\ error # <<>> /\ error[1].name = "corrupt.mp3"
  /\ decodeLog = <<"verse.mp3", "corrupt.mp3">>

TagFails == opts.tagFile # NoFile /\ ~FileLib[opts.tagFile].decodes

\* a step of the running invocation
RunStep ==
  \/ DecodeTrackOk \/ DecodeTrackFail \/ DecodeDone
  \/ DecodeTagNone \/ DecodeTagOk \/ DecodeTagFail
  \/ PlanGains \/ Timeline \/ ScheduleTrack \/ ScheduleDone
  \/ ScheduleTagsStart \/ ScheduleTagsSkip \/ ScheduleTag \/ ScheduleTagsDone
  \/ Render \/ Encode

\* the gain of input track k, from its file alone
ExpectedGain(k) ==
  IF opts.normalize THEN gainAdjustment(AudioBufferOf(tracks[k].file)) ELSE <<1, 1>>

\* the track events of a run, from the tracks and the options other than the tag's
TaglessEvents ==
  [k \in 1..NumTracks |->
     [index |-> k - 1, start |-> WindowStart(k), stop |-> WindowEnd(k),
      value |-> ExpectedGain(k), setTime |-> FadeStart(k), setValue |-> ExpectedGain(k),
      rampEnd |-> WindowEnd(k), rampTarget |-> 0]]

\* C6: if the tag file fails to decode (the tracks being non-empty and
\* decodable), createDemoMix does not fail: it never stops short of done and returns
\* output with the total duration and the track events of a run without a tag
\* file (both are functions of the tracks and the non-tag options), and with
\* no watermark event.
C6_TagFailureRecovered ==
  /\ (pc # "idle" /\ TagFails /\ tracks # <<>> /\ AllTracksDecode) =>
       /\ pc # "failed"
       /\ error = <<>>
       /\ tagBuffer = <<>>
       /\ tagEvents = <<>>
       /\ pc # "done" => ENABLED RunStep
       /\ pc = "done" =>
            /\ result # <<>>
            /\ totalOutputDuration = ExpectedTotal
            /\ trackEvents = TaglessEvents
  /\ (pc = "done" /\ opts.tagFile = NoFile) =>
       /\ totalOutputDuration = ExpectedTotal
       /\ trackEvents = TaglessEvents
       /\ tagEvents = <<>>

C6_Witness ==
  /\ pc = "done"
  /\ TagFails
  /\ warnings = 1
  /\ opts.tagInterval = Sec(30)
  /\ NumTracks = 2
  /\ result # <<>>
  /\ tagEvents = <<>>
  /\ Len(trackEvents) = 2

\* C7: within one invocation the values passed to the progress callback are
\* non-decreasing; each is an integer in [5, 100]; 100 is reported only once,
\* as the last value of a run that succeeds.
C7_ProgressMonotone ==
  /\ \A k \in 1..Len(progress) : progress[k] \in 5..100
  /\ \A k \in 1..(Len(progress) - 1) : progress[k] <= progress[k + 1]
  /\ \A k \in 1..Len(progress) :
       progress[k] = 100 => (k = Len(progress) /\ pc = "done" /\ result # <<>>)
  /\ pc = "done" => progress[Len(progress)] = 100

C7_Witness ==
  /\ pc = "done"
  /\ NumTracks = 3
  /\ progress = <<5, 10, 20, 30, 45, 60, 80, 90, 100>>

TagTimes == {tagEvents[k].start : k \in 1..Len(tagEvents)}

\* min(5, totalDuration / 2), doubled to stay in integers
TwiceFirst == IF Sec(10) < totalOutputDuration THEN Sec(10) ELSE totalOutputDuration

\* C8: with a decoded watermark buffer and tagInterval > 0 the watermark start
\* times are exactly first + k * tagInterval (k = 0, 1, ...) below
\* totalDuration, first = min(5, totalDuration / 2); for tagInterval = 30 and
\* totalDuration = 90 they are {5, 35, 65}.  Without a buffer, or with
\* tagInterval <= 0, no watermark event is scheduled.
C8_WatermarkTimes ==
  TagsScheduled =>
    IF tagBuffer # <<>> /\ opts.tagInterval > 0
      THEN /\ TagTimes =
                { t \in { (TwiceFirst + 2 * k * opts.tagInterval) \div 2 :
                             k \in 0..(totalOutputDuration \div opts.tagInterval) } :
                    t < totalOutputDuration }
           /\ TwiceFirst % 2 = 0
           /\ \A k \in 1..(Len(tagEvents) - 1) : tagEvents[k].start < tagEvents[k + 1].start
           /\ (opts.tagInterval = Sec(30) /\ totalOutputDuration = Sec(90)) =>
                TagTimes = {Sec(5), Sec(35), Sec(65)}
      ELSE tagEvents = <<>>

C8_Witness ==
  /\ pc = "done"
  /\ opts.tagInterval = Sec(30)
  /\ totalOutputDuration = Sec(90)
  /\ Len(tagEvents) = 3
  /\ tagEvents[1].start = Sec(5) /\ tagEvents[2].start = Sec(35) /\ tagEvents[3].start = Sec(65)

\* ceil(44100 * d) frames for a duration of d half milliseconds: the least f
\* with f / 44100 >= d / 2000, i.e. 20 * f >= 441 * d
IsFrameCountOf(f, d) == 20 * f >= 441 * d /\ 20 * (f - 1) < 441 * d

\* C9: watermark events never extend the total duration: the frame count of
\* the master buffer depends only on the tracks, segmentDuration and
\* silenceGap (it is the same with and without a watermark), and every
\* watermark occurrence starts at a time t with 0 <= t < totalDuration.
C9_WatermarkWithinDuration ==
  /\ TimelineKnown =>
       /\ offlineCtx # <<>>
       /\ IsFrameCountOf(offlineCtx[1].length, ExpectedTotal)
       /\ offlineCtx[1].numberOfChannels = 2
  /\ renderedBuffer # <<>> => renderedBuffer[1].length = offlineCtx[1].length
  /\ \A k \in 1..Len(tagEvents) :
       0 <= tagEvents[k].start /\ tagEvents[k].start < totalOutputDuration

C9_Witness ==
  /\ pc = "done"
  /\ NumTracks = 1
  /\ tracks[1].file = "loud.mp3"
  /\ opts.segmentDuration = Sec(25)
  /\ opts.tagInterval = Sec(10)
  /\ Len(tagEvents) = 2
  /\ tagEvents[2].start = Sec(15)
  /\ renderedBuffer[1].length = 44100 * 25

\* instants of the window of track k at which the envelope is examined
SamplePoints(k) ==
  LET a == WindowStart(k)
      f == FadeStart(k)
      b == WindowEnd(k)
  IN  {a, a + 1, (a + f) \div 2, f - 1, f, f + 1, (f + b) \div 2, b - 1, b} \cap (a..b)

\* C10: for every track the gain envelope is constant at the track's gain from
\* the window start to fadeStart, then a linear ramp from that gain to 0 that
\* reaches exactly 0 at the window end; it is non-increasing over the fade
\* interval, for both normalization settings.
C10_Envelope ==
  \A k \in 1..Len(trackEvents) :
    LET e == trackEvents[k]
        g == ExpectedGain(k)
        a == WindowStart(k)
        f == FadeStart(k)
        b == WindowEnd(k)
    IN  /\ e.start = a /\ e.stop = b
        /\ \A t \in SamplePoints(k) :
             LET v == envelopeAt(e, t)
             IN  /\ t < f => (FEq(v.gain, g) /\ v.num = v.den)
                 /\ (f <= t /\ t < b) =>
                      (FEq(v.gain, g) /\ v.num * (b - f) = (b - t) * v.den)
                 /\ t = b => v.num = 0
        /\ \A t1, t2 \in SamplePoints(k) :
             (f <= t1 /\ t1 <= t2) =>
               LET v1 == envelopeAt(e, t1)
                   v2 == envelopeAt(e, t2)
               IN  v2.num = 0 \/ (FEq(v1.gain, v2.gain) /\ v1.num * v2.den >= v2.num * v1.den)

C10_Witness ==
  /\ pc = "done"
  /\ opts.normalize
  /\ opts.fadeDuration = Ms(500)
  /\ opts.segmentDuration = Sec(25)
  /\ NumTracks = 2
  /\ tracks[1].file = "loud.mp3" /\ tracks[2].file = "intro.wav"
  /\ envelopeAt(trackEvents[1], Sec(24)) = [gain |-> <<1, 4>>, num |-> 1, den |-> 1]
  /\ envelopeAt(trackEvents[1], Ms(24750)) = [gain |-> <<1, 4>>, num |-> Ms(250), den |-> Ms(500)]
  /\ envelopeAt(trackEvents[1], Sec(25)).num = 0
  /\ trackEvents[2].setTime = trackEvents[2].start

\* C11: for every track fadeStart = max(window start, window end - fadeDuration);
\* it is never negative, never before the window start and (fadeDuration >= 0)
\* never after the window end, also for tracks shorter than fadeDuration.
C11_FadeStart ==
  \A k \in 1..Len(trackEvents) :
    LET e == trackEvents[k]
        a == WindowStart(k)
        b == WindowEnd(k)
    IN  /\ e.start = a /\ e.stop = b
        /\ e.setTime >= a
        /\ e.setTime >= b - opts.fadeDuration
        /\ e.setTime = a \/ e.setTime = b - opts.fadeDuration
        /\ e.setTime >= 0
        /\ e.setTime <= b

C11_Witness ==
  /\ pc = "done"
  /\ opts.fadeDuration = Ms(500)
  /\ opts.segmentDuration = Sec(25)
  /\ opts.silenceGap = Ms(300)
  /\ NumTracks = 2
  /\ tracks[1].file = "verse.mp3" /\ tracks[2].file = "intro.wav"
  /\ trackEvents[1].setTime = Ms(9500)
  /\ trackEvents[2].start = Ms(10300)
  /\ trackEvents[2].setTime = Ms(10300)
  /\ trackEvents[2].stop = Ms(10600)

\* C18 (as stated): after the scheduling loop has processed all tracks the
\* cursor equals totalDuration, the gap being added after every track except
\* the final one.
C18_CursorIsTotal ==
  TracksScheduled => cursor = totalOutputDuration

\* C18 (amended): after the scheduling loop the cursor equals totalDuration
\* plus one silenceGap: the loop adds the gap after every track, the final one
\* included; the trailing gap is excluded from totalDuration (the timeline
\* pass), not from the cursor.
C18_CursorIsTotalPlusGap ==
  /\ TracksScheduled => cursor = totalOutputDuration + opts.silenceGap
  /\ (pc = "schedule" /\ Len(trackEvents) > 0) =>
       cursor = WindowEnd(Len(trackEvents)) + opts.silenceGap

C18_Witness ==
  /\ pc = "done"
  /\ NumTracks = 2
  /\ opts.silenceGap = Ms(300)
  /\ opts.segmentDuration = Sec(25)
  /\ tracks[1].file = "verse.mp3" /\ tracks[2].file = "loud.mp3"
  /\ totalOutputDuration = Ms(35300)
  /\ cursor = Ms(35600)

\* C19: the timeline follows input track order: decoded buffer i is that of
\* input track i; track i starts at the sum over j < i of
\* (playLength_j + silenceGap), track 0 at 0, and ends at start + playLength_i;
\* the play windows of different tracks never overlap.
C19_TimelineOrder ==
  /\ Len(decodedBuffers) <= NumTracks
  /\ \A k \in 1..Len(decodedBuffers) :
       /\ decodedBuffers[k] = AudioBufferOf(tracks[k].file)
       /\ decodeLog[k] = tracks[k].name
  /\ Len(trackEvents) <= Len(decodedBuffers)
  /\ \A k \in 1..Len(trackEvents) :
       LET e == trackEvents[k]
       IN  /\ e.index = k - 1
           /\ e.start = WindowStart(k)
           /\ e.stop = e.start + PlayLength(k)
           /\ k = 1 => e.start = 0
  /\ \A j, k \in 1..Len(trackEvents) :
       j < k => trackEvents[j].stop <= trackEvents[k].start

C19_Witness ==
  /\ pc = "done"
  /\ NumTracks = 3
  /\ opts.silenceGap = Ms(300)
  /\ opts.segmentDuration = Sec(25)
  /\ tracks[1].file = "loud.mp3" /\ tracks[2].file = "intro.wav" /\ tracks[3].file = "verse.mp3"
  /\ trackEvents[1].start = 0 /\ trackEvents[1].stop = Sec(25)
  /\ trackEvents[2].start = Ms(25300) /\ trackEvents[2].stop = Ms(25600)
  /\ trackEvents[3].start = Ms(25900) /\ trackEvents[3].stop = Ms(35900)

\* the little-endian 16-bit and 32-bit values at byte offset off of a file
Le16(bytes, off) == bytes[off + 1] + 256 * bytes[off + 2]

Le32(bytes, off) ==
  bytes[off + 1] + 256 * bytes[off + 2] + 65536 * bytes[off + 3] + 16777216 * bytes[off + 4]

\* C13: the master buffer has 2 channels and ceil(44100 * totalDuration)
\* frames; the WAV made from it declares a data chunk of frames * 2 * 2 bytes
\* and is 44 bytes longer, so that reading it back (data bytes / block align)
\* yields ceil(44100 * totalDuration) frames.
C13_FrameCountRoundTrip ==
  /\ renderedBuffer # <<>> =>
       /\ renderedBuffer[1].numberOfChannels = 2
       /\ IsFrameCountOf(renderedBuffer[1].length, totalOutputDuration)
  /\ pc = "done" =>
       LET wav    == result[1].wav
           frames == renderedBuffer[1].length
       IN  /\ Len(wav.header) = 44
           /\ Le32(wav.header, 40) = frames * 2 * 2
           /\ wav.size = 44 + frames * 2 * 2
           /\ Le32(wav.header, 40) % Le16(wav.header, 32) = 0
           /\ IsFrameCountOf(Le32(wav.header, 40) \div Le16(wav.header, 32), totalOutputDuration)

C13_Witness ==
  /\ pc = "done"
  /\ NumTracks = 2
  /\ opts.segmentDuration = Ms(7)
  /\ opts.silenceGap = 0
  /\ totalOutputDuration = Ms(14)
  /\ renderedBuffer[1].length = 618
  /\ result[1].wav.size = 44 + 618 * 4
  /\ Le32(result[1].wav.header, 40) = 2472

\* C16: a successful createDemoMix returns two outputs, wav and mp3, and the
\* mp3 output is the very blob of the wav output, of type audio/wav; no
\* separate compressed encoding is produced.
C16_Mp3IsWav ==
  /\ result # <<>> =>
       /\ pc = "done"
       /\ DOMAIN result[1] = {"wav", "mp3"}
       /\ result[1].mp3 = result[1].wav
       /\ result[1].wav.type = "audio/wav"
       /\ result[1].mp3.type = "audio/wav"
       /\ result[1].wav = wavBlobOf(renderedBuffer[1])
  /\ pc = "done" => result # <<>>

C16_Witness ==
  /\ pc = "done"
  /\ result # <<>>
  /\ result[1].mp3.type = "audio/wav"
  /\ result[1].mp3.size = 44 + 44100 * 10 * 4
  /\ result[1].wav.size = 44 + 44100 * 10 * 4

\* the bytes of a file from offset off, len of them
BytesAt(bytes, off, len) == [k \in 1..len |-> bytes[off + k]]

\* C12: the WAV output has a 44-byte header: "RIFF", the little-endian 32-bit
\* file length - 8 at offset 4, "WAVE", a "fmt " chunk of length 16 declaring
\* format 1 (PCM), 2 channels, sample rate 44100, byte rate =
\* sampleRate * 2 * channels, block align = channels * 2 and 16 bits per
\* sample, then the "data" tag.
C12_WavHeader ==
  result # <<>> =>
    LET wav == result[1].wav
        h   == wav.header
    IN  /\ Len(h) = 44
        /\ BytesAt(h, 0, 4) = <<82, 73, 70, 70>>
        /\ Le32(h, 4) = wav.size - 8
        /\ BytesAt(h, 8, 4) = <<87, 65, 86, 69>>
        /\ BytesAt(h, 12, 4) = <<102, 109, 116, 32>>
        /\ Le32(h, 16) = 16
        /\ Le16(h, 20) = 1
        /\ Le16(h, 22) = 2
        /\ Le32(h, 24) = 44100
        /\ Le32(h, 28) = 44100 * 2 * 2
        /\ Le16(h, 32) = 2 * 2
        /\ Le16(h, 34) = 16
        /\ BytesAt(h, 36, 4) = <<100, 97, 116, 97>>
        /\ \A k \in 1..44 : h[k] \in 0..255

C12_Witness ==
  /\ pc = "done"
  /\ NumTracks = 1
  /\ tracks[1].file = "intro.wav"
  /\ opts.segmentDuration = Sec(25)
  /\ result[1].wav.size = 52964
  /\ BytesAt(result[1].wav.header, 0, 8) = <<82, 73, 70, 70, 220, 206, 0, 0>>
  /\ BytesAt(result[1].wav.header, 24, 4) = <<68, 172, 0, 0>>

\* the signed 16-bit little-endian value at a byte offset
Int16At(bytes, off) ==
  LET u == Le16(bytes, off) IN IF u >= 32768 THEN u - 65536 ELSE u

\* C14: in the data chunk, for every frame f and channel c of the buffer, the
\* signed 16-bit value at offset 44 + 2 * (f * channels + c) is the
\* quantization of sample (c, f): no frame is skipped or shifted; the file has
\* the allocated size and every byte of it is a byte.
C14_DataChunk ==
  fnApplied = "wav" =>
    LET b == testBuffer[1]
        w == wavFile[1]
    IN  /\ Len(w) = wavLength(b)
        /\ \A k \in 1..Len(w) : w[k] \in 0..255
        /\ \A f \in 0..(b.length - 1) : \A c \in 0..(b.numberOfChannels - 1) :
             Int16At(w, 44 + 2 * (f * b.numberOfChannels + c))
               = quantize(b.channels[c + 1][f + 1])

\* a 45-frame mono buffer: only frame 44 is written, at the place of frame 0
C14_FailingInput ==
  /\ fnApplied = "wav"
  /\ testBuffer[1] = TestBuffer(1, 45, 0)
  /\ quantize(testBuffer[1].channels[1][1]) = -32768
  /\ quantize(testBuffer[1].channels[1][45]) = -8847
  /\ Int16At(wavFile[1], 44) = -8847
  /\ \A k \in 47..Len(wavFile[1]) : wavFile[1][k] = 0

\* C15: quantization clamps to [-1, 1], multiplies every negative value by
\* 32768 and every non-negative value by 32767, truncating toward zero; the
\* result is within [-32768, 32767].
C15_Quantization ==
  fnApplied = "quantize" =>
    LET clamped == clampSample(quantIn)
    IN  /\ quantOut = IF clamped < 0
                        THEN TruncDiv(clamped * 32768, 100)
                        ELSE TruncDiv(clamped * 32767, 100)
        /\ quantOut \in -32768..32767

\* the sample -0.5 is scaled by 32767
C15_FailingInput ==
  /\ fnApplied = "quantize"
  /\ quantIn = -50
  /\ quantOut = -16383

\* the frames 0, 4, 8, ... below a length
SampledFrames(length) == {f \in 0..(length - 1) : f % 4 = 0}

\* C20: the analyzer reads the first channel at frames 0, 4, 8, ... below the
\* buffer length and returns the square root of the sum of their squares
\* divided by the number of frames sampled, for every buffer length.
C20_MeanOfSampled ==
  fnApplied = "rms" =>
    LET b      == testBuffer[1]
        frames == SampledFrames(b.length)
        sum    == SumSeq([k \in 1..Cardinality(frames) |->
                    b.channels[1][4 * (k - 1) + 1] * b.channels[1][4 * (k - 1) + 1]])
    IN  FEq(rmsValue[1], <<sum, Cardinality(frames)>>)

\* a 5-frame buffer: two frames are sampled, the sum is divided by 5 / 4
C20_FailingInput ==
  /\ fnApplied = "rms"
  /\ testBuffer[1] = TestBuffer(1, 5, 0)
  /\ rmsValue[1] = <<4 * (150 * 150 + 2 * 2), 5>>

NoResultNow == demoWav = <<>> /\ demoMp3 = <<>> /\ blobs = <<>>

\* C17: when createDemoMix fails inside the App's render request, the App ends
\* with no result at all (demoWav, demoMp3 and blobs all null, none of them
\* set while the request is open) and with isProcessing back to false; and
\* after every render request isProcessing eventually returns to false.
C17_FailedRender ==
  /\ [](isProcessing => NoResultNow)
  /\ [][pc = "failed" /\ pc' # "failed" =>
          demoWav' = <<>> /\ demoMp3' = <<>> /\ blobs' = <<>> /\ ~isProcessing']_allVars
  /\ (isProcessing ~> ~isProcessing)

\* a request has failed on its second track and the alert was shown
C17_Witness ==
  /\ alerts = 1
  /\ ~isProcessing
  /\ pc = "idle"
  /\ NoResultNow
  /\ appTracks = <<AudioTrack("intro.wav"), AudioTrack("corrupt.mp3")>>

\* C21: within one invocation the phases run in order and do not overlap:
\* tracks are decoded one at a time in input order, each at most once, none
\* after the first failing one; the tag is decoded only after every track
\* decoded; gain planning and scheduling start only after all decoding has
\* finished; rendering starts only after all events are scheduled; encoding
\* starts only after rendering.  decodeLog is the order of the decode attempts.
C21_PhaseOrder ==
  /\ Len(decodeLog) <= NumTracks + 1
  /\ Len(decodedBuffers) <= Len(decodeLog)
  /\ \A k \in 1..Min(Len(decodeLog), NumTracks) :
       /\ decodeLog[k] = tracks[k].name
       /\ \A j \in 1..(k - 1) : FileLib[tracks[j].file].decodes
  /\ Len(decodeLog) = NumTracks + 1 =>
       /\ NumTracks > 0
       /\ AllTracksDecode
       /\ Len(decodedBuffers) = NumTracks
       /\ decodeLog[NumTracks + 1] = opts.tagFile
  /\ (tagBuffer # <<>> \/ warnings > 0) => Len(decodeLog) = NumTracks + 1
  /\ (gainAdjustments # <<>> \/ trackDurations # <<>> \/ offlineCtx # <<>>) =>
       /\ tempContext = "closed"
       /\ Len(decodedBuffers) = NumTracks
       /\ opts.tagFile # NoFile => Len(decodeLog) = NumTracks + 1
  /\ trackEvents # <<>> => Len(gainAdjustments) = NumTracks /\ offlineCtx # <<>>
  /\ tagEvents # <<>> => Len(trackEvents) = NumTracks
  /\ renderedBuffer # <<>> =>
       /\ Len(trackEvents) = NumTracks
       /\ tagsWanted(tagBuffer, opts.tagInterval) =>
            /\ tagEvents # <<>> \/ totalOutputDuration = 0
            /\ ~tagLoopCondition(tagCursor, totalOutputDuration)
  /\ result # <<>> => renderedBuffer # <<>>
  /\ pc = "failed" /\ tracks # <<>> =>
       /\ Len(decodeLog) <= NumTracks
       /\ ~FileLib[tracks[Len(decodeLog)].file].decodes
       /\ gainAdjustments = <<>> /\ trackEvents = <<>> /\ renderedBuffer = <<>> /\ result = <<>>

\* two tracks and a tag went through every phase
C21_Witness ==
  /\ pc = "done"
  /\ NumTracks = 2
  /\ decodeLog = <<tracks[1].name, tracks[2].name, "tag.wav">>
  /\ tracks[1].name # tracks[2].name
  /\ Len(trackEvents) = 2
  /\ tagEvents # <<>>
  /\ result # <<>>

\* C23: for silenceGap >= 0 every track's scheduled end time is <= the total
\* duration and the last track's end time equals it: the timeline pass and the
\* scheduling pass agree and no window reaches past the master buffer.
C23_WindowsWithinTotal ==
  /\ opts.silenceGap >= 0
  /\ \A k \in 1..Len(trackEvents) :
       /\ trackEvents[k].stop <= totalOutputDuration
       /\ 20 * offlineCtx[1].length >= 441 * trackEvents[k].stop
  /\ TracksScheduled =>
       /\ Len(trackEvents) = NumTracks
       /\ trackEvents[NumTracks].stop = totalOutputDuration

\* three tracks, two of them cut to the segment, with gaps
C23_Witness ==
  /\ pc = "done"
  /\ NumTracks = 3
  /\ tracks[1].file = "loud.mp3" /\ tracks[2].file = "verse.mp3" /\ tracks[3].file = "loud.mp3"
  /\ opts.segmentDuration = Sec(25)
  /\ opts.silenceGap = Ms(300)
  /\ trackEvents[1].stop = Sec(25)
  /\ trackEvents[2].stop = Ms(35300)
  /\ trackEvents[3].stop = Ms(60600)
  /\ totalOutputDuration = Ms(60600)

\* ceil((totalDuration - first) / tagInterval), first = min(5, totalDuration / 2),
\* with numerator and denominator doubled
ExpectedTagCount == CeilDiv(2 * totalOutputDuration - TwiceFirst, 2 * opts.tagInterval)

CallInputs(id) == <<calls[id].decodedBuffers, calls[id].tagBuffer, calls[id].opts>>

\* what it computed
CallOutputs(id) ==
  <<calls[id].gainAdjustments, calls[id].trackEvents, calls[id].totalOutputDuration,
    calls[id].tagEvents>>

\* C22: createDemoMix keeps no state between invocations and shares none
\* between concurrent ones: two invocations given the same decoded buffers and
\* options compute the same gains, track windows, total duration and
\* watermark times, whatever ran before or runs in between; an idle
\* invocation holds nothing.
C22_NoSharedState ==
  /\ \A a \in CallIds : \A b \in CallIds :
       (calls[a].pc = "scheduled" /\ calls[b].pc = "scheduled" /\ CallInputs(a) = CallInputs(b))
         => CallOutputs(a) = CallOutputs(b)
  /\ \A a \in CallIds :
       /\ calls[a].pc = "idle" => calls[a] = IdleCall
       /\ calls[a].trackEvents # <<>> => calls[a].trackEvents[1].start = 0

\* two invocations of two tracks with normalization and a tag have finished
C22_Witness ==
  /\ calls[1].pc = "scheduled"
  /\ calls[2].pc = "scheduled"
  /\ CallInputs(1) = CallInputs(2)
  /\ Len(calls[1].decodedBuffers) = 2
  /\ calls[1].opts.normalize
  /\ Len(calls[2].trackEvents) = 2
  /\ calls[2].trackEvents[2].start = Ms(10300)
  /\ calls[2].tagEvents # <<>>

\* C25: whenever a rendered result is available (blobs non-null) it was
\* rendered from the current track list, the same tracks in the same order.
C25_ResultIsCurrent ==
  blobs # <<>> => renderedFrom = <<appTracks>>

\* two tracks were rendered; one was removed while the render was running
C25_FailingInput ==
  /\ blobs # <<>>
  /\ ~isProcessing
  /\ renderedFrom = <<<<AudioTrack("intro.wav"), AudioTrack("intro.wav")>>>>
  /\ appTracks = <<AudioTrack("intro.wav")>>
  /\ lastOp.op = "remove"

ListOps == {"add", "remove", "swap", "clear"}

\* C26: every operation that changes the track list (handleFilesAdded,
\* handleRemoveTrack, a moveTrack that swaps, a confirmed handleClearSession)
\* leaves demoWav, demoMp3 and blobs null right after it, and a moveTrack at a
\* boundary changes neither the track list nor the result.
C26_ListChangeClearsResult ==
  [][/\ appTracks' # appTracks =>
          /\ lastOp'.op \in ListOps
          /\ demoWav' = <<>> /\ demoMp3' = <<>> /\ blobs' = <<>>
     /\ (lastOp' # lastOp /\ lastOp'.op \in ListOps) =>
          demoWav' = <<>> /\ demoMp3' = <<>> /\ blobs' = <<>>
     /\ (lastOp' # lastOp /\ lastOp'.op = "boundary") =>
          UNCHANGED <<appTracks, demoWav, demoMp3, blobs>>]_allVars

\* a track was removed while a result was at hand
C26_Witness ==
  /\ lastOp = [op |-> "remove", hadResult |-> TRUE]
  /\ Len(appTracks) = 1
  /\ NoResultNow
  /\ ~isProcessing

\* a createDemoMix invocation is in flight: its timer is set or it is running
InFlight == renderTimer # <<>> \/ pc # "idle"

\* C27: at most one createDemoMix invocation is in flight at any time: a
\* render is requested only while isProcessing is false and the track list is
\* non-empty, and isProcessing stays true from the request until the
\* invocation has succeeded or failed.
C27_OneRenderInFlight ==
  /\ ~(renderTimer # <<>> /\ pc # "idle")
  /\ InFlight <=> isProcessing
  /\ renderTimer # <<>> => renderTimer[1].tracks # <<>>
  /\ pc # "idle" => tracks # <<>>

\* the invocation is running while the user has emptied the list
C27_Witness ==
  /\ isProcessing
  /\ pc = "schedule"
  /\ renderTimer = <<>>
  /\ Len(tracks) = 2
  /\ appTracks = <<>>

\* ---------------------------------------------------------------------------
\* The capacity of the track list: App.tsx line 334 displays
\* "{tracks.length} / 20"; one drop or one file dialog hands over any number of
\* files (FileDropzone.tsx lines 23-45), and handleFilesAdded appends them all.

trackCapacity == 20

MaxListed == 21

ManyFiles == { [k \in 1..n |-> "intro.wav"] : n \in 0..MaxListed }

\* App.tsx lines 39-52 behind FileDropzone.tsx lines 23-45, with a batch of any
\* size; the list is bounded by MaxListed to keep the state space finite
HandleFilesAddedMany ==
  /\ ~isProcessing
  /\ \E files \in ManyFiles :
       /\ Len(appTracks) + Len(files) <= MaxListed
       /\ filesAdded(files)
  /\ UNCHANGED <<vars, fnVars, callVars>>

NextCapacity ==
  \/ HandleFilesAddedMany
  \/ HandleRemoveTrack
  \/ MoveTrack
  \/ HandleClearSession
  \/ SetNormalize

SpecCapacity == Init /\ [][NextCapacity]_allVars

\* C28: the track list never holds more than the 20 tracks that the sequence
\* counter displays as its capacity, after any sequence of additions, removals
\* and moves.
C28_AtMostTwenty ==
  Len(appTracks) <= trackCapacity

\* 21 files were dropped at once on an empty list
C28_FailingInput ==
  /\ Len(appTracks) = trackCapacity + 1
  /\ lastOp.op = "add"

====
